---- MODULE Spec2Model ----
(***************************************************************************)
(* AnthropicPassthroughConfig                                              *)
(* (litellm/llms/anthropic/passthrough/transformation.py).                 *)
(*                                                                         *)
(* Python values are tagged records: None, str (a sequence of one-char     *)
(* strings), bool, int, list, dict (insertion-ordered sequence of          *)
(* <<key, value>> pairs).  The headers dict and os.environ are functions   *)
(* from their keys to values.                                              *)
(***************************************************************************)
EXTENDS Naturals, Sequences, FiniteSets, TLC

VARIABLES environ, op, args, ret, fmt, seen, pc, loc, reads, changes

vars == <<environ, op, args, ret, fmt, seen, pc, loc, reads, changes>>

(* ------------------------------ bounds -------------------------------- *)

MaxEndpointLen == 3

MaxModelParts == 3

MaxEnvChanges == 2

(* --------------------------- Python values ---------------------------- *)

None == [t |-> "None"]

Str(s) == [t |-> "str", v |-> s]

Bool(b) == [t |-> "bool", v |-> b]

Int(n) == [t |-> "int", v |-> n]

List(l) == [t |-> "list", v |-> l]

Dict(items) == [t |-> "dict", v |-> items]

\* bool(x): None, "", False, 0, [] and {} are falsy, everything else truthy
Truthy(x) ==
    CASE x.t = "None" -> FALSE
      [] x.t = "str"  -> Len(x.v) > 0
      [] x.t = "bool" -> x.v
      [] x.t = "int"  -> x.v # 0
      [] x.t = "list" -> Len(x.v) > 0
      [] x.t = "dict" -> Len(x.v) > 0

\* a or b: a when a is truthy, else b (b is returned as is, falsy or not)
PyOr(a, b) == IF Truthy(a) THEN a ELSE b

\* s.startswith(p) on character sequences
StartsWith(s, p) == Len(s) >= Len(p) /\ SubSeq(s, 1, Len(p)) = p

\* d.get(k, default) on a dict held as a function
DictGet(d, k, default) == IF k \in DOMAIN d THEN d[k] ELSE default

\* d[k] = v on a dict held as a function
DictSet(d, k, val) == [x \in (DOMAIN d) \cup {k} |-> IF x = k THEN val ELSE d[x]]

\* os.getenv(name): the value, or None when the variable is not set
getenv(e, name) == IF name \in DOMAIN e THEN Str(e[name]) ELSE None

(* ----------------------------- literals ------------------------------- *)

DefaultBase ==
    <<"h","t","t","p","s",":","/","/","a","p","i",".",
      "a","n","t","h","r","o","p","i","c",".","c","o","m">>

ProviderPrefix == <<"a","n","t","h","r","o","p","i","c","/">>

(* ----------------------- the operations, as code ---------------------- *)

\* is_streaming_request: request_data.get("stream", False)
is_streaming_request(endpoint, request_data) ==
    DictGet(request_data, "stream", Bool(FALSE))

resolve_base_target_url_none_check(api_base, e) ==
    IF api_base # None THEN api_base
    ELSE PyOr(getenv(e, "ANTHROPIC_API_BASE"), Str(DefaultBase))

\* get_complete_url, line 52: api_base or os.getenv(...) or "https://api.anthropic.com"
resolve_base_target_url(api_base, e) ==
    PyOr(PyOr(api_base, getenv(e, "ANTHROPIC_API_BASE")), Str(DefaultBase))

normalize_endpoint_missing(endpoint) == endpoint

\* get_complete_url, lines 55-56: if not endpoint.startswith("/"): endpoint = "/" + endpoint
normalize_endpoint(endpoint) ==
    IF ~StartsWith(endpoint, <<"/">>) THEN <<"/">> \o endpoint ELSE endpoint

\* query encoding of one character: reserved characters are percent-encoded
EncodeChar(c) ==
    CASE c = " " -> <<"%", "2", "0">>
      [] c = "&" -> <<"%", "2", "6">>
      [] c = "=" -> <<"%", "3", "D">>
      [] OTHER   -> <<c>>

RECURSIVE EncodeStr(_)
EncodeStr(s) == IF s = <<>> THEN <<>> ELSE EncodeChar(Head(s)) \o EncodeStr(Tail(s))

\* key=value pairs, &-joined, in the mapping's insertion order
RECURSIVE EncodeItems(_)
EncodeItems(items) ==
    IF items = <<>> THEN <<>>
    ELSE EncodeStr(Head(items)[1]) \o <<"=">> \o EncodeStr(Head(items)[2])
         \o (IF Tail(items) = <<>> THEN <<>> ELSE <<"&">> \o EncodeItems(Tail(items)))

\* BasePassthroughConfig.format_url: base + endpoint, then the query string if any
format_url(endpoint, base_target_url, request_query_params) ==
    Str(base_target_url.v \o endpoint
        \o (IF Truthy(request_query_params)
            THEN <<"?">> \o EncodeItems(request_query_params.v) ELSE <<>>))

\* get_complete_url: the returned tuple, and the arguments handed to format_url
get_complete_url(api_base, api_key, model, endpoint, request_query_params, e) ==
    LET base_target_url == resolve_base_target_url(api_base, e)
        endpoint2 == normalize_endpoint(endpoint)
        complete_url == format_url(endpoint2, base_target_url, request_query_params)
    IN [complete_url |-> complete_url, base_target_url |-> base_target_url,
        format_url_endpoint |-> endpoint2]

\* get_models: return []
get_models(api_key, api_base) == List(<<>>)

get_api_key_explicit_only(api_key, e) == api_key

\* get_api_key: api_key or os.getenv("ANTHROPIC_API_KEY")
get_api_key(api_key, e) == PyOr(api_key, getenv(e, "ANTHROPIC_API_KEY"))

get_api_base_no_env(api_base, e) == PyOr(api_base, Str(DefaultBase))

\* get_api_base: api_base or os.getenv("ANTHROPIC_API_BASE") or "https://api.anthropic.com"
get_api_base(api_base, e) ==
    PyOr(PyOr(api_base, getenv(e, "ANTHROPIC_API_BASE")), Str(DefaultBase))

\* forward_request_headers: return True
forward_request_headers == Bool(TRUE)

\* validate_environment: if api_key: headers["x-api-key"] = api_key; return headers
validate_environment(headers, api_key, api_base) ==
    IF Truthy(api_key) THEN DictSet(headers, "x-api-key", api_key) ELSE headers

get_base_model_keeps_separator(model) ==
    IF StartsWith(model, ProviderPrefix)
    THEN SubSeq(model, Len(ProviderPrefix), Len(model))
    ELSE model

\* get_base_model: strip one leading "anthropic/"
get_base_model(model) ==
    IF StartsWith(model, ProviderPrefix)
    THEN SubSeq(model, Len(ProviderPrefix) + 1, Len(model))
    ELSE model

(* ------------------------------ inputs -------------------------------- *)

EnvNames == {"ANTHROPIC_API_BASE", "ANTHROPIC_API_KEY"}

BaseE == <<"h","t","t","p",":","/","/","e">>

BaseB == <<"h","t","t","p",":","/","/","b">>

KeyE == <<"k","e">>

KeyG == <<"k","g">>

TokC == <<"B","e","a","r","e","r"," ","t">>

\* the values a set environment variable can hold: empty or not
EnvValues(name) ==
    IF name = "ANTHROPIC_API_BASE" THEN {<<>>, BaseE} ELSE {<<>>, KeyE}

\* os.environ restricted to the two variables the module reads; a variable
\* outside the domain is not set
Environs ==
    UNION { { e \in [D -> {<<>>, BaseE, KeyE}] : \A n \in D : e[n] \in EnvValues(n) }
            : D \in SUBSET EnvNames }

ApiBaseArgs == {None, Str(<<>>), Str(BaseB), Str(BaseB \o <<"/">>)}

ApiKeyArgs == {None, Str(<<>>), Str(KeyG)}

EndpointChars == {"/", "v"}

StringsUpTo(chars, n) == UNION { [1..k -> chars] : k \in 0..n }

Endpoints == StringsUpTo(EndpointChars, MaxEndpointLen)

ModelPieces == {ProviderPrefix, <<"c">>, <<"/">>}

RECURSIVE ModelStrings(_)
ModelStrings(n) ==
    IF n = 0 THEN {<<>>}
    ELSE LET S == ModelStrings(n - 1)
         IN S \cup { p \o m : p \in ModelPieces, m \in S }

Models == ModelStrings(MaxModelParts)

QueryParams ==
    { None, Dict(<<>>), Dict(<< <<(<<"a">>), (<<"1">>)>> >>),
      Dict(<< <<(<<"a">>), (<<"1">>)>>, <<(<<"b">>), (<<"x"," ","y">>)>> >>) }

HeaderNames == {"Authorization", "x-api-key", "anthropic-beta"}

HeaderValues == {Str(TokC), Str(KeyG)}

Headers == UNION { [D -> HeaderValues] : D \in SUBSET HeaderNames }

StreamValues ==
    { Bool(TRUE), Bool(FALSE), None, Str(<<>>), Str(<<"t","r","u","e">>),
      Int(0), Int(1), List(<<>>), List(<<Int(1)>>) }

RequestBodies ==
    UNION { { b \in [D -> StreamValues \cup {Str(<<"c">>)}] :
                /\ ("stream" \in D => b["stream"] \in StreamValues)
                /\ ("model" \in D => b["model"] = Str(<<"c">>)) }
            : D \in SUBSET {"stream", "model"} }

(* ------------------------------- state -------------------------------- *)

NoFmt == [called |-> FALSE]

NoLoc == [set |-> FALSE]

NoReads == [n \in EnvNames |-> 0]

Init ==
    /\ environ \in Environs
    /\ op = "none"
    /\ args = [none |-> TRUE]
    /\ ret = None
    /\ fmt = NoFmt
    /\ seen = {}
    /\ pc = "idle"
    /\ loc = NoLoc
    /\ reads = NoReads
    /\ changes = 0

\* os.environ[name] = val, by the deployment, between calls
Setenv ==
    \E n \in EnvNames : \E val \in EnvValues(n) :
        /\ pc = "idle"
        /\ environ' = DictSet(environ, n, val)
        /\ UNCHANGED <<op, args, ret, fmt, seen, pc, loc, reads, changes>>

\* del os.environ[name]
Unsetenv ==
    \E n \in DOMAIN environ :
        /\ pc = "idle"
        /\ environ' = [m \in (DOMAIN environ) \ {n} |-> environ[m]]
        /\ UNCHANGED <<op, args, ret, fmt, seen, pc, loc, reads, changes>>

\* a whole call, run against the environment as it stands
Returns(o, a, r, f) ==
    /\ op' = o
    /\ args' = a
    /\ ret' = r
    /\ fmt' = f
    /\ seen' = {environ}
    /\ pc' = "done"
    /\ UNCHANGED <<environ, loc, reads, changes>>

Call_is_streaming_request ==
    /\ pc = "idle"
    /\ \E endpoint \in Endpoints, request_data \in RequestBodies :
           Returns("is_streaming_request",
                   [endpoint |-> endpoint, request_data |-> request_data],
                   is_streaming_request(endpoint, request_data), NoFmt)

Call_get_complete_url ==
    /\ pc = "idle"
    /\ \E api_base \in ApiBaseArgs, api_key \in ApiKeyArgs, model \in ModelStrings(1),
          endpoint \in Endpoints, request_query_params \in QueryParams :
           LET r == get_complete_url(api_base, api_key, model, endpoint,
                                     request_query_params, environ)
           IN Returns("get_complete_url",
                      [api_base |-> api_base, api_key |-> api_key, model |-> model,
                       endpoint |-> endpoint,
                       request_query_params |-> request_query_params],
                      [complete_url |-> r.complete_url,
                       base_target_url |-> r.base_target_url],
                      [called |-> TRUE, endpoint |-> r.format_url_endpoint,
                       base_target_url |-> r.base_target_url,
                       request_query_params |-> request_query_params])

Call_get_models ==
    /\ pc = "idle"
    /\ \E api_key \in ApiKeyArgs, api_base \in ApiBaseArgs :
           Returns("get_models", [api_key |-> api_key, api_base |-> api_base],
                   get_models(api_key, api_base), NoFmt)

Call_get_api_key ==
    /\ pc = "idle"
    /\ \E api_key \in ApiKeyArgs :
           Returns("get_api_key", [api_key |-> api_key],
                   get_api_key(api_key, environ), NoFmt)

Call_get_api_base ==
    /\ pc = "idle"
    /\ \E api_base \in ApiBaseArgs :
           Returns("get_api_base", [api_base |-> api_base],
                   get_api_base(api_base, environ), NoFmt)

Call_forward_request_headers ==
    /\ pc = "idle"
    /\ Returns("forward_request_headers", [none |-> TRUE], forward_request_headers, NoFmt)

Call_validate_environment ==
    /\ pc = "idle"
    /\ \E headers \in Headers, api_key \in ApiKeyArgs, api_base \in ApiBaseArgs :
           Returns("validate_environment",
                   [headers |-> headers, api_key |-> api_key, api_base |-> api_base],
                   validate_environment(headers, api_key, api_base), NoFmt)

Call_get_base_model ==
    /\ pc = "idle"
    /\ \E model \in Models :
           Returns("get_base_model", [model |-> model], Str(get_base_model(model)), NoFmt)

\* the dispatcher takes the result; the resolver keeps nothing of the call
Finish ==
    /\ pc = "done"
    /\ op' = "none"
    /\ args' = [none |-> TRUE]
    /\ ret' = None
    /\ fmt' = NoFmt
    /\ seen' = {}
    /\ pc' = "idle"
    /\ loc' = NoLoc
    /\ reads' = NoReads
    /\ changes' = 0
    /\ UNCHANGED environ

Next ==
    \/ Finish
    \/ Setenv
    \/ Unsetenv
    \/ Call_is_streaming_request
    \/ Call_get_complete_url
    \/ Call_get_models
    \/ Call_get_api_key
    \/ Call_get_api_base
    \/ Call_forward_request_headers
    \/ Call_validate_environment
    \/ Call_get_base_model

Spec == Init /\ [][Next]_vars

(* ------------- the environment-reading calls, line by line ------------- *)
(* Another thread of the process may change os.environ between any two     *)
(* lines of a call.  seen collects every environment that existed while    *)
(* the call ran; reads counts the os.getenv calls per variable.            *)

ConcEndpoints == StringsUpTo(EndpointChars, 1)

ConcQueryParams == {None, Dict(<< <<(<<"a">>), (<<"1">>)>> >>)}

Begin(o, a, line) ==
    /\ op' = o
    /\ args' = a
    /\ pc' = line
    /\ seen' = {environ}
    /\ UNCHANGED <<environ, ret, fmt, loc, reads, changes>>

\* x or os.getenv(name) ...: os.getenv runs only when x is falsy
ReadsAfter(x, name) ==
    IF Truthy(x) THEN reads ELSE [reads EXCEPT ![name] = @ + 1]

Begin_get_complete_url ==
    /\ pc = "idle"
    /\ \E api_base \in ApiBaseArgs, endpoint \in ConcEndpoints,
          request_query_params \in ConcQueryParams :
           Begin("get_complete_url",
                 [api_base |-> api_base, api_key |-> None, model |-> <<"c">>,
                  endpoint |-> endpoint,
                  request_query_params |-> request_query_params], "L52")

Begin_get_api_key ==
    /\ pc = "idle"
    /\ \E api_key \in ApiKeyArgs : Begin("get_api_key", [api_key |-> api_key], "L86")

Begin_get_api_base ==
    /\ pc = "idle"
    /\ \E api_base \in ApiBaseArgs : Begin("get_api_base", [api_base |-> api_base], "L93")

\* line 52: base_target_url = api_base or os.getenv(...) or default
Line52 ==
    /\ pc = "L52"
    /\ loc' = [set |-> TRUE,
               base_target_url |-> resolve_base_target_url(args.api_base, environ)]
    /\ reads' = ReadsAfter(args.api_base, "ANTHROPIC_API_BASE")
    /\ pc' = "L55"
    /\ UNCHANGED <<environ, op, args, ret, fmt, seen, changes>>

\* lines 55-63: normalize the endpoint, complete_url = self.format_url(...)
Line55 ==
    /\ pc = "L55"
    /\ LET endpoint2 == normalize_endpoint(args.endpoint)
       IN /\ fmt' = [called |-> TRUE, endpoint |-> endpoint2,
                     base_target_url |-> loc.base_target_url,
                     request_query_params |-> args.request_query_params]
          /\ loc' = [set |-> TRUE, base_target_url |-> loc.base_target_url,
                     endpoint |-> endpoint2,
                     complete_url |-> format_url(endpoint2, loc.base_target_url,
                                                 args.request_query_params)]
    /\ pc' = "L65"
    /\ UNCHANGED <<environ, op, args, ret, seen, reads, changes>>

Line65_rereads_environment ==
    /\ pc = "L65"
    /\ ret' = [complete_url |-> loc.complete_url,
               base_target_url |-> resolve_base_target_url(args.api_base, environ)]
    /\ reads' = ReadsAfter(args.api_base, "ANTHROPIC_API_BASE")
    /\ pc' = "done"
    /\ UNCHANGED <<environ, op, args, fmt, seen, loc, changes>>

\* line 65: return complete_url, base_target_url
Line65 ==
    /\ pc = "L65"
    /\ ret' = [complete_url |-> loc.complete_url,
               base_target_url |-> loc.base_target_url]
    /\ pc' = "done"
    /\ UNCHANGED <<environ, op, args, fmt, seen, loc, reads, changes>>

\* line 86: return api_key or os.getenv("ANTHROPIC_API_KEY")
Line86 ==
    /\ pc = "L86"
    /\ ret' = get_api_key(args.api_key, environ)
    /\ reads' = ReadsAfter(args.api_key, "ANTHROPIC_API_KEY")
    /\ pc' = "done"
    /\ UNCHANGED <<environ, op, args, fmt, seen, loc, changes>>

\* line 93: return api_base or os.getenv("ANTHROPIC_API_BASE") or default
Line93 ==
    /\ pc = "L93"
    /\ ret' = get_api_base(args.api_base, environ)
    /\ reads' = ReadsAfter(args.api_base, "ANTHROPIC_API_BASE")
    /\ pc' = "done"
    /\ UNCHANGED <<environ, op, args, fmt, seen, loc, changes>>

Running == pc \in {"L52", "L55", "L65", "L86", "L93"}

\* another thread sets a variable while the call runs
ConcSetenv ==
    /\ Running
    /\ changes < MaxEnvChanges
    /\ \E n \in EnvNames : \E val \in EnvValues(n) :
           /\ environ' = DictSet(environ, n, val)
           /\ environ' # environ
    /\ seen' = seen \cup {environ'}
    /\ changes' = changes + 1
    /\ UNCHANGED <<op, args, ret, fmt, pc, loc, reads>>

\* another thread unsets a variable while the call runs
ConcUnsetenv ==
    /\ Running
    /\ changes < MaxEnvChanges
    /\ \E n \in DOMAIN environ :
           environ' = [m \in (DOMAIN environ) \ {n} |-> environ[m]]
    /\ seen' = seen \cup {environ'}
    /\ changes' = changes + 1
    /\ UNCHANGED <<op, args, ret, fmt, pc, loc, reads>>

NextConc ==
    \/ Finish
    \/ Setenv
    \/ Unsetenv
    \/ Begin_get_complete_url
    \/ Begin_get_api_key
    \/ Begin_get_api_base
    \/ Line52
    \/ Line55
    \/ Line65
    \/ Line86
    \/ Line93
    \/ ConcSetenv
    \/ ConcUnsetenv

SpecConc == Init /\ [][NextConc]_vars

(* ------------------------------ claims -------------------------------- *)

Returned(o) == pc = "done" /\ op = o

\* an Optional[str] that is present and not the empty string
NonEmpty(x) == x # None /\ x # Str(<<>>)

\* first non-empty of explicit value B and environment value E, else D
Precedence(B, E, D) == IF NonEmpty(B) THEN B ELSE IF NonEmpty(E) THEN E ELSE D

\* C1: the baseTargetUrl returned by get_complete_url is the explicit api_base if
\* non-empty, else ANTHROPIC_API_BASE if non-empty, else the hard-coded default;
\* it is never empty or absent.
C1_BasePrecedence ==
    Returned("get_complete_url") =>
        \A e \in seen :
            /\ ret.base_target_url =
                   Precedence(args.api_base, getenv(e, "ANTHROPIC_API_BASE"),
                              Str(DefaultBase))
            /\ NonEmpty(ret.base_target_url)

\* C1 witness: an empty explicit base falls through to a non-empty environment base
C1_Witness ==
    /\ Returned("get_complete_url")
    /\ args.api_base = Str(<<>>)
    /\ \E e \in seen : getenv(e, "ANTHROPIC_API_BASE") = Str(BaseE)
    /\ ret.base_target_url = Str(BaseE)

\* C2: get_api_base(apiBase) returns the same string as the baseTargetUrl of
\* get_complete_url(apiBase, ...) in the same environment, for every endpoint,
\* model, key and query parameters.
C2_ApiBaseAgreesWithUrlBase ==
    Returned("get_api_base") =>
        \A e \in seen, api_key \in ApiKeyArgs, model \in ModelStrings(1),
           endpoint \in Endpoints, request_query_params \in QueryParams :
            get_complete_url(args.api_base, api_key, model, endpoint,
                             request_query_params, e).base_target_url = ret

\* C2 witness: get_api_base resolved an absent explicit base from the environment
C2_Witness ==
    /\ Returned("get_api_base")
    /\ args.api_base = None
    /\ \E e \in seen : getenv(e, "ANTHROPIC_API_BASE") = Str(BaseE)
    /\ ret = Str(BaseE)

\* C3: validate_environment returns a map in which every header the client
\* supplied is still present with its original value, and the only key it may
\* add is x-api-key.
C3_ClientHeadersPreserved ==
    Returned("validate_environment") =>
        /\ \A h \in DOMAIN args.headers : h \in DOMAIN ret /\ ret[h] = args.headers[h]
        /\ DOMAIN ret \subseteq (DOMAIN args.headers) \cup {"x-api-key"}

\* the key validate_environment is documented to use: explicit, else environment
ResolvedKey(api_key, e) ==
    IF NonEmpty(api_key) THEN api_key ELSE getenv(e, "ANTHROPIC_API_KEY")

\* C4: validate_environment sets x-api-key to the resolved key (the api_key
\* argument if non-empty, else ANTHROPIC_API_KEY) whenever one is available, and
\* adds no x-api-key when neither is available.
C4_ResolvedKeySet ==
    Returned("validate_environment") =>
        \A e \in seen :
            IF NonEmpty(ResolvedKey(args.api_key, e))
            THEN /\ "x-api-key" \in DOMAIN ret
                 /\ ret["x-api-key"] = ResolvedKey(args.api_key, e)
            ELSE ret = args.headers

\* C5: when the client already carries a credential (Authorization or its own
\* x-api-key), validate_environment with a non-empty gateway api_key does not
\* place the gateway key in the returned headers.
C5_FallbackOnlyWithoutClientCredential ==
    ( /\ Returned("validate_environment")
      /\ NonEmpty(args.api_key)
      /\ \/ "Authorization" \in DOMAIN args.headers
         \/ "x-api-key" \in DOMAIN args.headers )
    => ret = args.headers

\* C6: is_streaming_request returns the boolean true iff the body has a stream
\* field whose value is the boolean true, and the boolean false otherwise
\* (absent, false or non-boolean stream), whatever the endpoint.
C6_StreamingIsBooleanTrue ==
    Returned("is_streaming_request") =>
        ret = Bool(/\ "stream" \in DOMAIN args.request_data
                   /\ args.request_data["stream"] = Bool(TRUE))

C8_Idempotent ==
    Returned("get_base_model") =>
        /\ get_base_model(ret.v) = ret.v
        /\ ~StartsWith(args.model, ProviderPrefix) => ret.v = args.model

\* C8 (amended): get_base_model removes exactly one leading "anthropic/"; a name
\* without the prefix is returned unchanged; a second application changes the
\* result exactly when the name starts with "anthropic/anthropic/".
C8_StripsOnePrefix ==
    Returned("get_base_model") =>
        /\ ~StartsWith(args.model, ProviderPrefix) => ret.v = args.model
        /\ StartsWith(args.model, ProviderPrefix) => ProviderPrefix \o ret.v = args.model
        /\ (get_base_model(ret.v) # ret.v)
               <=> StartsWith(args.model, ProviderPrefix \o ProviderPrefix)

\* C8 witness: a doubly prefixed name keeps one prefix after the call
C8_Witness ==
    /\ Returned("get_base_model")
    /\ args.model = ProviderPrefix \o ProviderPrefix \o <<"c">>
    /\ ret.v = ProviderPrefix \o <<"c">>

\* C9 (as stated): get_api_key returns the explicit key if non-empty, else the
\* environment key if non-empty, else nothing; it never returns an empty string.
C9_KeyPrecedenceNeverEmpty ==
    Returned("get_api_key") =>
        \A e \in seen :
            /\ ret = Precedence(args.api_key, getenv(e, "ANTHROPIC_API_KEY"), None)
            /\ ret # Str(<<>>)

\* C9 (amended): get_api_key returns the explicit key if non-empty, else whatever
\* ANTHROPIC_API_KEY holds: its value (the empty string when it is set to the
\* empty string), or nothing when it is not set.
C9_KeyPrecedence ==
    Returned("get_api_key") =>
        \A e \in seen :
            /\ NonEmpty(args.api_key) => ret = args.api_key
            /\ ~NonEmpty(args.api_key) =>
                   ret = (IF "ANTHROPIC_API_KEY" \in DOMAIN e
                          THEN Str(e["ANTHROPIC_API_KEY"]) ELSE None)

\* C9 witness: an empty explicit key and an empty environment key give ""
C9_Witness ==
    /\ Returned("get_api_key")
    /\ args.api_key = Str(<<>>)
    /\ \E e \in seen : getenv(e, "ANTHROPIC_API_KEY") = Str(<<>>)
    /\ ret = Str(<<>>)

\* C10: with the environment changing between the lines of a call, each call of
\* get_complete_url, get_api_base or get_api_key reads each variable at most
\* once, its result is the precedence rule applied to one environment that
\* existed during the call, and in get_complete_url the returned baseTargetUrl is
\* the base used inside completeUrl.
C10_OneSnapshot ==
    pc = "done" =>
        /\ \A n \in EnvNames : reads[n] <= 1
        /\ op = "get_complete_url" =>
               /\ \E e \in seen :
                      ret.base_target_url =
                          Precedence(args.api_base, getenv(e, "ANTHROPIC_API_BASE"),
                                     Str(DefaultBase))
               /\ fmt.base_target_url = ret.base_target_url
               /\ ret.complete_url =
                      format_url(fmt.endpoint, ret.base_target_url,
                                 args.request_query_params)
        /\ op = "get_api_base" =>
               \E e \in seen :
                   ret = Precedence(args.api_base, getenv(e, "ANTHROPIC_API_BASE"),
                                    Str(DefaultBase))
        /\ op = "get_api_key" =>
               \E e \in seen : ret = PyOr(args.api_key, getenv(e, "ANTHROPIC_API_KEY"))

\* C10 witness: the environment changed after line 52 read it, and the call
\* returned the base it had read, not the one the environment holds now
C10_Witness ==
    /\ Returned("get_complete_url")
    /\ changes >= 1
    /\ reads["ANTHROPIC_API_BASE"] = 1
    /\ ret.base_target_url = Str(BaseE)
    /\ getenv(environ, "ANTHROPIC_API_BASE") # Str(BaseE)

====
